---- MODULE Spec2Model ----
(***************************************************************************)
(* Model of the LostSword layout editor (src/app/page.tsx): the slot and   *)
(* formation assignment state of Page, the slot picker, and the image      *)
(* cache and load batches of PreviewCanvas.                                *)
(***************************************************************************)
EXTENDS Integers, FiniteSets, Sequences, TLC

(***************************************************************************)
(* Bounds of the model: sizes of the asset catalogs (src/data/*.json is    *)
(* static data, any size).                                                 *)
(***************************************************************************)
NumFormationChars == 6

NumChars == 2

NumPets == 3

NumCards == 2

NumEquipsPerDir == 1

\* how many load batches PreviewCanvas starts
MaxBatches == 2

\* how many srcs have a load that fails
MaxFailedSrcs == 1

\* how many words and line breaks a note has
MaxNoteTokens == 7

\* how many times the user presses the save button
MaxSaves == 3

\* how many loads are in flight, at most, when the model changes between
\* exports
MaxLoadsInFlight == 3

\* SpecTimer: the model changes while at most this many loads are in flight
MaxTimerLoads == 1

\* SpecTimer: how many line breaks are typed into the note
MaxTimerBreaks == 2

\* how many ids nanoid() draws from
NumItemIds == 3

\* bringToFront and addItem are followed while no zIndex exceeds this
MaxZIndex == 4

\* how many of the slots, from slot 0 on, the user selects assets for
NumEditedSlots == 2

\* how many fields of the slots hold an asset before the user stops opening
\* pickers
MaxFilledFields == 2

(***************************************************************************)
(* LibraryItem {id, name, src}.  A src is the sequence of its path         *)
(* segments.  Null stands for null; its id stands for the undefined that   *)
(* `s?.id` yields on null.                                                 *)
(***************************************************************************)
Null == [id |-> 0, src |-> <<>>]

\* the characters that callers hand to assignFormation
formationChars ==
    {[id |-> n, src |-> <<"assets", "char", n>>] : n \in 1..NumFormationChars}

\* data/chars.json
chars == {[id |-> n, src |-> <<"assets", "char", n>>] : n \in 1..NumChars}

\* data/pets.json
pets == {[id |-> n, src |-> <<"assets", "pet", n>>] : n \in 1..NumPets}

\* data/cards.json
cards == {[id |-> n, src |-> <<"assets", "card", n>>] : n \in 1..NumCards}

\* the directories of data/equip.json: one per equipment kind, and one that
\* getEquipKind classifies as other
equipDirs == {"weapon", "armor", "helmet", "roon", "misc"}

equipIdBase(dir) ==
    CASE dir = "weapon" -> 0
      [] dir = "armor" -> 1
      [] dir = "helmet" -> 2
      [] dir = "roon" -> 3
      [] OTHER -> 4

\* data/equip.json
equips ==
    {[id |-> equipIdBase(dir) * NumEquipsPerDir + n, src |-> <<"assets", "equip", dir, n>>] :
        dir \in equipDirs, n \in 1..NumEquipsPerDir}

EquipKinds == {"weapon", "armor", "helmet", "roon"}

SlotIndexes == 0..4

PetSlotIndexes == 0..2

FormationPositions == 0..5

PetFormationPositions == 0..2

VARIABLES
    formationSlots,      \* useState: 6 positions, 0-1 back, 2-3 mid, 4-5 front
    formationPick,       \* useState: character picked for placement
    petFormationSlots,   \* useState: 3 positions, one per lane
    petFormationPick,    \* useState: pet picked for placement
    charSlots,           \* useState: 5 slots {id, char, card, equips}
    petSlots,            \* useState: 3 pet slots
    picker,              \* useState: the category the picker lists, or "null"
    slotTarget,          \* useState: the slot the picker selects for, or NoTarget
    imageCache,          \* the srcs that the module-level Map holds an image for
    loads,               \* the Image loads in flight, each started by one batch
    nBatches,            \* how many times the load effect has run
    settled,             \* the batches whose Promise.all has resolved or rejected
    imagesLoaded,        \* useState of PreviewCanvas
    resolvedFromCache,   \* the srcs whose loadImage of the current batch returned the cached image
    renderTimer,         \* renderTimeoutRef: a drawCanvas timeout is pending
    timers,              \* the pending timeouts, each with the props that its drawCanvas closes over
    renderTimeoutRef,    \* renderTimeoutRef.current: the id of the last timeout set, or 0
    mounted,             \* PreviewCanvas is mounted
    items,               \* useEditorStore: items, each with its id and zIndex
    selectedId,          \* useEditorStore: selectedId, 0 for null
    frame,               \* what the last drawCanvas drew on the canvas, or NoFrame
    noteText,            \* useState: the note, as paragraphs of words
    width,               \* the width prop of PreviewCanvas, in tenths of a px
    download,            \* the PNG that the last handleSave offered for download
    nodeStyle,           \* the inline style of the container that html2canvas captures
    savePc,              \* each handleSave invocation: "idle", "awaiting", "done" or "failed"
    savePrev,            \* each handleSave invocation: its const prev
    failedLoads,         \* history: the srcs a load of which has failed, and when
    call,                \* history: the last operation and its arguments
    prevFormationSlots,  \* history: formationSlots before the last operation
    prevPetFormationSlots, \* history: petFormationSlots before the last operation
    prevCharSlots,       \* history: charSlots before the last operation
    prevSlotTarget       \* history: slotTarget before the last operation

formationVars == <<formationSlots, formationPick>>

petFormationVars == <<petFormationSlots, petFormationPick>>

slotVars == <<charSlots, petSlots>>

pickerVars == <<picker, slotTarget>>

cacheVars ==
    <<imageCache, loads, nBatches, settled, imagesLoaded, failedLoads, resolvedFromCache>>

canvasVars == <<renderTimer, timers, renderTimeoutRef, mounted, frame, noteText, width>>

\* the state outside the editor model, the image cache and the canvas
\* the handleSave of the first Page
saveVars == <<nodeStyle, savePc, savePrev>>

\* the editor store
storeVars == <<items, selectedId>>

restVars == <<download, saveVars, storeVars>>

historyVars ==
    <<call, prevFormationSlots, prevPetFormationSlots, prevCharSlots, prevSlotTarget>>

vars ==
    <<formationVars, petFormationVars, slotVars, pickerVars, cacheVars, canvasVars,
      restVars, historyVars>>

emptyFormation == [i \in FormationPositions |-> Null]

Saves == 1..MaxSaves

\* the inline style of the container as rendered: the element has a
\* className and no style attribute
initialStyle ==
    [transform |-> "", transformOrigin |-> "", width |-> "", height |-> "",
     overflow |-> ""]

\* the inline style that handleSave sets for the capture; the width and the
\* height are the scroll size of the node in px
captureStyle ==
    [transform |-> "none", transformOrigin |-> "top left", width |-> "scrollWidth",
     height |-> "scrollHeight", overflow |-> "visible"]

\* no PNG was offered for download yet
NoDownload == [saved |-> FALSE]

emptyPetFormation == [i \in PetFormationPositions |-> Null]

\* the canvas before the first drawCanvas
NoFrame == [drawn |-> FALSE]

\* useState(""): the text splits into one paragraph without words
emptyNote == << <<>> >>

NoCall == [op |-> "none", index |-> 0, item |-> Null]

(***************************************************************************)
(* Array.prototype.findIndex over the id of each entry: the first index    *)
(* whose entry has the id, or -1.                                          *)
(***************************************************************************)
findIndexById(arr, id) ==
    IF \E i \in DOMAIN arr : arr[i].id = id
    THEN CHOOSE i \in DOMAIN arr :
            /\ arr[i].id = id
            /\ \A j \in DOMAIN arr : arr[j].id = id => i <= j
    ELSE -1

\* prev.filter(Boolean).length
filledCount(arr) == Cardinality({i \in DOMAIN arr : arr[i] # Null})

\* idx <= 1 ? 0 : idx <= 3 ? 1 : 2
laneOf(idx) == IF idx <= 1 THEN 0 ELSE IF idx <= 3 THEN 1 ELSE 2

\* laneCounts after the forEach over prev
laneCountsOf(arr) ==
    [l \in 0..2 |-> Cardinality({i \in DOMAIN arr : arr[i] # Null /\ laneOf(i) = l})]

\* mutant: the character stays at its old position
vacate_keep(prev, existingIdx) == prev

\* next[existingIdx] = null
vacate(prev, existingIdx) == [prev EXCEPT ![existingIdx] = Null]

\* mutant: a click on the character's own position is not a removal
sameSlotToggle_off(existingIdx, index) == FALSE

\* if (existingIdx === index) return next
sameSlotToggle(existingIdx, index) == existingIdx = index

\* mutant: the limit of 5 is not enforced
capacityReject_off(next, index, filled) == FALSE

\* mutant: the limit is off by one
capacityReject_at4(next, index, filled) == next[index] = Null /\ filled >= 4

\* mutant: the limit of 5 also rejects a replacement in an occupied position
capacityReject_anyTarget(next, index, filled) == filled >= 5

\* if (!next[index] && filled >= 5) return prev
capacityReject(next, index, filled) == next[index] = Null /\ filled >= 5

\* mutant: the lane limit also rejects a replacement in an occupied position
laneReject_anyTarget(next, index, laneCounts, targetLane) == laneCounts[targetLane] >= 2

\* if (!next[index] && laneCounts[targetLane] >= 2) return prev
laneReject(next, index, laneCounts, targetLane) ==
    next[index] = Null /\ laneCounts[targetLane] >= 2

(***************************************************************************)
(* The updater that assignFormation(index, item) passes to                 *)
(* setFormationSlots.                                                      *)
(***************************************************************************)
assignFormation(prev, index, item) ==
    LET filled == filledCount(prev)
        laneCounts0 == laneCountsOf(prev)
        targetLane == laneOf(index)
    IN  IF item # Null
        THEN LET existingIdx == findIndexById(prev, item.id)
                 next == IF existingIdx # -1 THEN vacate(prev, existingIdx) ELSE prev
                 laneCounts == IF existingIdx # -1
                               THEN [laneCounts0 EXCEPT ![laneOf(existingIdx)] = @ - 1]
                               ELSE laneCounts0
             IN  IF existingIdx # -1 /\ sameSlotToggle(existingIdx, index) THEN next
                 ELSE IF capacityReject(next, index, filled) THEN prev
                 ELSE IF laneReject(next, index, laneCounts, targetLane) THEN prev
                 ELSE [next EXCEPT ![index] = item]
        ELSE [prev EXCEPT ![index] = Null]

\* mutant: the pet is not removed from its old position
movePet_dup(prev, existingIdx, index) == prev

\* if (existingIdx !== -1 && existingIdx !== index) next[existingIdx] = null
movePet(prev, existingIdx, index) ==
    IF existingIdx # -1 /\ existingIdx # index
    THEN [prev EXCEPT ![existingIdx] = Null]
    ELSE prev

(***************************************************************************)
(* The updater that assignPetFormation(index, item) passes to              *)
(* setPetFormationSlots.  For item = null, `s?.id === item?.id` compares   *)
(* undefined with undefined, so existingIdx is the first empty position.   *)
(***************************************************************************)
assignPetFormation(prev, index, item) ==
    LET existingIdx == findIndexById(prev, item.id)
        next == movePet(prev, existingIdx, index)
    IN  [next EXCEPT ![index] = item]

(***************************************************************************)
(* The character slots and the slot picker of Page.                        *)
(***************************************************************************)
\* useMemo: Array.from({length: 5}, ...), ids slot-1 .. slot-5
initialCharSlots ==
    [idx \in SlotIndexes |->
        [id |-> idx + 1, char |-> Null, card |-> Null,
         equips |-> [kind \in EquipKinds |-> Null]]]

initialPetSlots == [idx \in PetSlotIndexes |-> Null]

NoTarget == [type |-> "null", slotIndex |-> 0, equipKind |-> "null"]

\* src.includes("/dir/"): dir is a segment of the path that is not its last
includesDir(src, dir) == \E i \in 1..(Len(src) - 1) : src[i] = dir

getEquipKind(src) ==
    IF includesDir(src, "weapon") THEN "weapon"
    ELSE IF includesDir(src, "armor") THEN "armor"
    ELSE IF includesDir(src, "helmet") THEN "helmet"
    ELSE IF includesDir(src, "roon") THEN "roon"
    ELSE "other"

\* libraries[type]
libraries(type) ==
    CASE type = "card" -> cards
      [] type = "char" -> chars
      [] type = "pet" -> pets
      [] type = "equip" -> equips

\* mutant: the picker lists the whole catalog
filterAvailable_all(list, type, usedCharIds, usedCardIds, usedPetIds, currentId) == list

\* filterAvailable of renderSlotPickerList
filterAvailable(list, type, usedCharIds, usedCardIds, usedPetIds, currentId) ==
    {item \in list :
        CASE type = "char" -> item.id \notin usedCharIds \/ item.id = currentId
          [] type = "card" -> item.id \notin usedCardIds \/ item.id = currentId
          [] type = "pet" -> item.id \notin usedPetIds \/ item.id = currentId
          [] OTHER -> TRUE}

\* mutant: the equipment list is not narrowed to the kind
equipMatches_any(kind, equipKind) == TRUE

\* eq.kind === slotTarget.equipKind || eq.kind === "other"
equipMatches(kind, equipKind) == kind = equipKind \/ kind = "other"

(***************************************************************************)
(* renderSlotPickerList: the entries the picker can show for the slot      *)
(* target (the search box narrows the list, the empty query shows all).    *)
(***************************************************************************)
slotPickerList(pk, target, cs, ps) ==
    LET currentId ==
            CASE target.type = "char" -> cs[target.slotIndex].char.id
              [] target.type = "card" -> cs[target.slotIndex].card.id
              [] target.type = "pet" -> ps[target.slotIndex].id
              [] OTHER -> 0
        usedCharIds == {cs[i].char.id : i \in SlotIndexes} \ {0}
        usedCardIds == {cs[i].card.id : i \in SlotIndexes} \ {0}
        usedPetIds == {ps[i].id : i \in PetSlotIndexes} \ {0}
    IN  IF target.type = "equip" /\ target.equipKind # "null"
        THEN {eq \in equips : equipMatches(getEquipKind(eq.src), target.equipKind)}
        ELSE filterAvailable(libraries(pk), pk, usedCharIds, usedCardIds, usedPetIds,
                             currentId)

\* mutant: the item is taken out of every other slot that holds it
selectCharSlots_dedupe(cs, target, item) ==
    [i \in SlotIndexes |->
        IF i = target.slotIndex
        THEN CASE target.type = "char" -> [cs[i] EXCEPT !.char = item]
               [] target.type = "card" -> [cs[i] EXCEPT !.card = item]
               [] target.type = "equip" /\ target.equipKind # "null" ->
                    [cs[i] EXCEPT !.equips[target.equipKind] = item]
               [] OTHER -> cs[i]
        ELSE [cs[i] EXCEPT !.equips =
                [k \in EquipKinds |-> IF cs[i].equips[k] = item THEN Null ELSE cs[i].equips[k]]]]

\* the charSlots that handleSelectToSlot(item) sets for the target
selectCharSlots(cs, target, item) ==
    CASE target.type = "char" -> [cs EXCEPT ![target.slotIndex].char = item]
      [] target.type = "card" -> [cs EXCEPT ![target.slotIndex].card = item]
      [] target.type = "equip" /\ target.equipKind # "null" ->
            [cs EXCEPT ![target.slotIndex].equips[target.equipKind] = item]
      [] OTHER -> cs

\* the petSlots that handleSelectToSlot(item) sets for the target
selectPetSlots(ps, target, item) ==
    IF target.type = "pet" THEN [ps EXCEPT ![target.slotIndex] = item] ELSE ps

\* mutant: the reset of a slot leaves its equipment
resetCharSlots_keepEquips(cs, type, idx, equipKind) ==
    CASE type = "char" -> [cs EXCEPT ![idx].char = Null, ![idx].card = Null]
      [] type = "card" -> [cs EXCEPT ![idx].card = Null]
      [] type = "equip" /\ equipKind # "null" -> [cs EXCEPT ![idx].equips[equipKind] = Null]
      [] OTHER -> cs

\* the charSlots that resetSlot(type, idx, equipKind) sets
resetCharSlots(cs, type, idx, equipKind) ==
    CASE type = "char" -> [cs EXCEPT ![idx] = initialCharSlots[idx]]
      [] type = "card" -> [cs EXCEPT ![idx].card = Null]
      [] type = "equip" /\ equipKind # "null" -> [cs EXCEPT ![idx].equips[equipKind] = Null]
      [] OTHER -> cs

\* the petSlots that resetSlot(type, idx) sets
resetPetSlots(ps, type, idx) ==
    IF type = "pet" THEN [ps EXCEPT ![idx] = Null] ELSE ps

(***************************************************************************)
(* The image cache and the load effect of PreviewCanvas.                   *)
(***************************************************************************)
getLaneIconSrc(label) ==
    IF label = "back" THEN <<"assets", "lane-back.png">>
    ELSE IF label = "mid" THEN <<"assets", "lane-mid.png">>
    ELSE <<"assets", "lane-front.png">>

\* the Set that loadAllImages collects from the props
imageSrcs(cs, pfs) ==
    {cs[i].char.src : i \in {j \in SlotIndexes : cs[j].char # Null}}
        \cup {cs[i].card.src : i \in {j \in SlotIndexes : cs[j].card # Null}}
        \cup {cs[i].equips[k].src :
                <<i, k>> \in {t \in SlotIndexes \X EquipKinds : cs[t[1]].equips[t[2]] # Null}}
        \cup {pfs[i].src : i \in {j \in PetFormationPositions : pfs[j] # Null}}
        \cup {getLaneIconSrc("back"), getLaneIconSrc("mid"), getLaneIconSrc("front")}

\* mutant: loadImage never consults the cache
loadImageStarts_always(src, cache, inflight) == TRUE

\* loadImage(src) creates a new Image unless the cache holds a complete one
\* (an image enters the cache in its onload, so a cached image is complete)
loadImageStarts(src, cache, inflight) == src \notin cache

(***************************************************************************)
(* drawCanvas.  Lengths are in tenths of a px, so that the widths the code *)
(* computes for the 1280 px canvas (236.8, 50.7, 741.6, 239.2, 470.4) are  *)
(* integers.                                                               *)
(***************************************************************************)
\* width={1280}
pageWidth == 12800

\* window.devicePixelRatio || 1
dpr == 1

padding == 160

\* the 16 px between two slots
slotGap == 160

slotPadding == 80

equipSize == 520

equipGap == 60

maxImageHeight == 2800

bottomSectionHeight == 1800

petBoxHeight == 1440

notePadding == 120

lineHeight == 200

Min(a, b) == IF a < b THEN a ELSE b

slotWidth(w) == (w - padding * 2 - slotGap * 4) \div 5

charImageHeight(w) == Min((slotWidth(w) * 4) \div 3, maxImageHeight)

cardImageHeight(w) == Min((slotWidth(w) * 8) \div 5, maxImageHeight)

slotsHeight(w) == charImageHeight(w) + cardImageHeight(w) + equipSize + 320

equipItemWidth(w) == (slotWidth(w) - slotPadding * 2 - equipGap * 3) \div 4

bottomSectionY(w) == padding + slotsHeight(w) + 120

petSectionWidth(w) == ((w - padding * 2 - 120) * 6) \div 10

petBoxWidth(w) == (petSectionWidth(w) - 160 - 80) \div 3

noteSectionWidth(w) == ((w - padding * 2 - 120) * 4) \div 10

noteAreaWidth(w) == noteSectionWidth(w) - notePadding * 2

noteAreaHeight == bottomSectionHeight - 400 - notePadding

\* mutant: a line that fits only in part counts
maxLines_ceil == (noteAreaHeight + lineHeight - 1) \div lineHeight

maxLines == noteAreaHeight \div lineHeight

\* the regions that take an asset: the character image, the card image and
\* the 4 equipment cells of each slot, and the 3 pet-lane boxes
Regions ==
    {[kind |-> k, index |-> i, equip |-> 0] : k \in {"char", "card"}, i \in SlotIndexes}
        \cup {[kind |-> "equip", index |-> i, equip |-> j] : i \in SlotIndexes, j \in 0..3}
        \cup {[kind |-> "pet", index |-> i, equip |-> 0] : i \in PetFormationPositions}

\* the rectangle that drawCanvas draws for region r on a canvas of width w
canvasRegion(w, r) ==
    LET slotX == padding + r.index * (slotWidth(w) + slotGap) + slotPadding
        charY == padding + slotPadding
        cardY == charY + charImageHeight(w) + 120
        equipY == cardY + cardImageHeight(w) + 120
    IN  CASE r.kind = "char" ->
                [x |-> slotX, y |-> charY,
                 w |-> slotWidth(w) - slotPadding * 2, h |-> charImageHeight(w)]
          [] r.kind = "card" ->
                [x |-> slotX, y |-> cardY,
                 w |-> slotWidth(w) - slotPadding * 2, h |-> cardImageHeight(w)]
          [] r.kind = "equip" ->
                [x |-> slotX + r.equip * (equipItemWidth(w) + equipGap), y |-> equipY + 60,
                 w |-> equipItemWidth(w), h |-> equipSize]
          [] r.kind = "pet" ->
                [x |-> padding + 80 + r.index * (petBoxWidth(w) + 40),
                 y |-> bottomSectionY(w) + 80,
                 w |-> petBoxWidth(w), h |-> petBoxHeight]

\* the background that drawCanvas draws for character cell i:
\* roundRect(ctx, x, y, slotWidth, slotsHeight, 4)
cellRect(w, i) ==
    [x |-> padding + i * (slotWidth(w) + slotGap), y |-> padding,
     w |-> slotWidth(w), h |-> slotsHeight(w)]

\* the background of the equipment row of cell i:
\* roundRect(ctx, slotX, slotY, equipTotalWidth, equipSize + 12, 4)
equipRowRect(w, i) ==
    [x |-> padding + i * (slotWidth(w) + slotGap) + slotPadding,
     y |-> padding + slotPadding + charImageHeight(w) + 120 + cardImageHeight(w) + 120,
     w |-> slotWidth(w) - slotPadding * 2, h |-> equipSize + 120]

\* equipKinds[j]
equipKindAt(j) ==
    CASE j = 0 -> "weapon" [] j = 1 -> "armor" [] j = 2 -> "helmet" [] OTHER -> "roon"

\* the asset of region r
regionAsset(cs, pfs, r) ==
    CASE r.kind = "char" -> cs[r.index].char
      [] r.kind = "card" -> cs[r.index].card
      [] r.kind = "equip" -> cs[r.index].equips[equipKindAt(r.equip)]
      [] r.kind = "pet" -> pfs[r.index]

\* what drawCanvas draws in the region of a character or a card: the image
\* with the name on a band, or a filled rectangle with the name, or for no
\* asset a dashed box with a prompt
drawSlotImage(item, cache) ==
    IF item # Null
    THEN IF item.src \in cache THEN "image" ELSE "fallback"
    ELSE "prompt"

\* what drawCanvas draws in an equipment cell on top of the cell background:
\* the image, or for no asset the letter of the kind
drawEquipCell(equip, cache) ==
    IF equip # Null
    THEN IF equip.src \in cache THEN "image" ELSE "nothing"
    ELSE "prompt"

\* what drawCanvas draws in a pet-lane box under the lane label: the image in
\* a frame, or for no pet a dashed box with a prompt
drawPetImage(pet, cache) ==
    IF pet # Null
    THEN IF pet.src \in cache THEN "image" ELSE "nothing"
    ELSE "prompt"

\* what drawCanvas draws for region r
drawRegion(cs, pfs, cache, r) ==
    CASE r.kind \in {"char", "card"} -> drawSlotImage(regionAsset(cs, pfs, r), cache)
      [] r.kind = "equip" -> drawEquipCell(regionAsset(cs, pfs, r), cache)
      [] r.kind = "pet" -> drawPetImage(regionAsset(cs, pfs, r), cache)

(***************************************************************************)
(* The overlay of the second Page: the buttons over the canvas, placed by  *)
(* CSS.  Positions are measured from the origin of the canvas.             *)
(***************************************************************************)
\* const width = 1280 of canvasLayout
layoutWidth == 12800

canvasLayout ==
    [padding |-> padding,
     slotWidth |-> slotWidth(layoutWidth),
     charImageHeight |-> charImageHeight(layoutWidth),
     cardImageHeight |-> cardImageHeight(layoutWidth),
     equipSize |-> equipSize,
     slotPadding |-> slotPadding,
     gap |-> slotGap]

\* p-4 of the container: the canvas starts 16 px inside it
containerPadding == 160

\* top: "16px", left: "16px" of the overlay
overlayInset == 160

\* marginBottom: "12px" of the slot row
slotRowMarginBottom == 120

\* marginTop: "12px" of the pet and note row
petRowMarginTop == 120

\* the rectangle of the button that the overlay places for region r
overlayRegion(r) ==
    LET originX == overlayInset - containerPadding
        originY == overlayInset - containerPadding
        \* paddingLeft, paddingTop of the column
        contentX == originX + canvasLayout.padding
        contentY == originY + canvasLayout.padding
        \* the slots are the items of a flex row with gap
        slotLeft == contentX + r.index * (canvasLayout.slotWidth + canvasLayout.gap)
        slotRowHeight ==
            canvasLayout.charImageHeight + canvasLayout.cardImageHeight
                + canvasLayout.equipSize + 320
        \* the slot row and the pet row are items of a flex column: their
        \* margins do not collapse
        petRowTop == contentY + slotRowHeight + slotRowMarginBottom + petRowMarginTop
        equipTotalWidth == canvasLayout.slotWidth - canvasLayout.slotPadding * 2
        equipItemW == (equipTotalWidth - equipGap * 3) \div 4
        equipSlotY ==
            canvasLayout.slotPadding + canvasLayout.charImageHeight + 120
                + canvasLayout.cardImageHeight + 120
        petSectionW == ((12800 - canvasLayout.padding * 2 - 120) * 6) \div 10
        petBoxW == (petSectionW - 160 - 80) \div 3
    IN  CASE r.kind = "char" ->
                [x |-> slotLeft + canvasLayout.slotPadding,
                 y |-> contentY + canvasLayout.slotPadding,
                 w |-> canvasLayout.slotWidth - canvasLayout.slotPadding * 2,
                 h |-> canvasLayout.charImageHeight]
          [] r.kind = "card" ->
                [x |-> slotLeft + canvasLayout.slotPadding,
                 y |-> contentY + canvasLayout.slotPadding
                        + canvasLayout.charImageHeight + 120,
                 w |-> canvasLayout.slotWidth - canvasLayout.slotPadding * 2,
                 h |-> canvasLayout.cardImageHeight]
          [] r.kind = "equip" ->
                [x |-> slotLeft + canvasLayout.slotPadding + r.equip * (equipItemW + equipGap),
                 y |-> contentY + equipSlotY + 60,
                 w |-> equipItemW,
                 h |-> canvasLayout.equipSize]
          [] r.kind = "pet" ->
                [x |-> contentX + 80 + r.index * (petBoxW + 40),
                 y |-> petRowTop + 80,
                 w |-> petBoxW,
                 h |-> 1440]

(***************************************************************************)
(* The note.  A text is the sequence of its paragraphs (split at "\n"), a  *)
(* paragraph the sequence of its words (split at whitespace), a word the   *)
(* width that measureText gives it.                                        *)
(***************************************************************************)
\* the words a user types: one that fits twice in a line, one wider than the
\* note area
wordWidths == {2000, 5000}

\* the width that measureText gives a space
spaceWidth == 40

RECURSIVE sumWidths(_)
sumWidths(line) == IF line = <<>> THEN 0 ELSE Head(line) + sumWidths(Tail(line))

\* ctx.measureText(line).width, for the words of the line joined by spaces
measureText(line) ==
    IF line = <<>> THEN 0 ELSE sumWidths(line) + (Len(line) - 1) * spaceWidth

\* the loop over the words of a paragraph, from word k on: the lines so far
\* and the current line
RECURSIVE wrapWords(_, _, _, _, _, _)
wrapWords(words, k, currentLine, lines, areaWidth, limit) ==
    IF k > Len(words) \/ Len(lines) >= limit
    THEN [lines |-> lines, currentLine |-> currentLine]
    ELSE LET testLine == Append(currentLine, words[k])
         IN  IF measureText(testLine) > areaWidth /\ currentLine # <<>>
             THEN wrapWords(words, k + 1, <<words[k]>>, Append(lines, currentLine),
                            areaWidth, limit)
             ELSE wrapWords(words, k + 1, testLine, lines, areaWidth, limit)

\* the loop over the paragraphs, from paragraph k on
RECURSIVE wrapParagraphs(_, _, _, _, _)
wrapParagraphs(paragraphs, k, lines, areaWidth, limit) ==
    IF k > Len(paragraphs) \/ Len(lines) >= limit
    THEN lines
    ELSE IF paragraphs[k] = <<>>
         THEN wrapParagraphs(paragraphs, k + 1, Append(lines, <<>>), areaWidth, limit)
         ELSE LET r == wrapWords(paragraphs[k], 1, <<>>, lines, areaWidth, limit)
                  next == IF r.currentLine # <<>> /\ Len(r.lines) < limit
                          THEN Append(r.lines, r.currentLine)
                          ELSE r.lines
              IN  wrapParagraphs(paragraphs, k + 1, next, areaWidth, limit)

\* the lines that the note text wraps to
wrapNote(text, areaWidth, limit) ==
    IF \E k \in DOMAIN text : text[k] # <<>>
    THEN wrapParagraphs(text, 1, <<>>, areaWidth, limit)
    ELSE <<>>

\* the fillText calls of the note: each line with the y of its row
drawNote(text, w) ==
    LET lines == wrapNote(text, noteAreaWidth(w), maxLines)
    IN  [idx \in 1..Min(Len(lines), maxLines) |->
            [line |-> lines[idx],
             y |-> bottomSectionY(w) + 400 + (idx - 1) * lineHeight]]

\* canvas.width = v: a value that is not a valid unsigned long for the
\* attribute sets the default width of 300
canvasWidthSet(v) == IF v >= 0 THEN v ELSE 300

\* drawCanvas(): the canvas after it
drawCanvas(w, cs, pfs, text, cache, unsettled) ==
    [drawn |-> TRUE,
     width |-> w,
     canvasWidth |-> canvasWidthSet((w \div 10) * dpr),
     regions |-> [r \in Regions |-> drawRegion(cs, pfs, cache, r)],
     assets |-> [r \in Regions |-> regionAsset(cs, pfs, r)],
     note |-> drawNote(text, w),
     unsettled |-> unsettled]

Record(op, index, item) ==
    /\ call' = [op |-> op, index |-> index, item |-> item]
    /\ prevFormationSlots' = formationSlots
    /\ prevPetFormationSlots' = petFormationSlots
    /\ prevCharSlots' = charSlots
    /\ prevSlotTarget' = slotTarget

Init ==
    /\ formationSlots = emptyFormation
    /\ formationPick = Null
    /\ petFormationSlots = emptyPetFormation
    /\ petFormationPick = Null
    /\ charSlots = initialCharSlots
    /\ petSlots = initialPetSlots
    /\ picker = "null"
    /\ slotTarget = NoTarget
    /\ imageCache = {}
    /\ nBatches = 1
    /\ loads = {[batch |-> 1, src |-> src] :
                    src \in imageSrcs(initialCharSlots, emptyPetFormation)}
    /\ settled = {}
    /\ imagesLoaded = FALSE
    /\ failedLoads = {}
    /\ resolvedFromCache = {}
    /\ renderTimer = TRUE
    /\ timers = {[id |-> 1, charSlots |-> initialCharSlots,
                  petFormationSlots |-> emptyPetFormation, noteText |-> emptyNote,
                  width |-> pageWidth]}
    /\ renderTimeoutRef = 1
    /\ mounted = TRUE
    /\ frame = NoFrame
    /\ noteText = emptyNote
    /\ width = pageWidth
    /\ download = NoDownload
    /\ nodeStyle = initialStyle
    /\ savePc = [k \in Saves |-> "idle"]
    /\ savePrev = [k \in Saves |-> initialStyle]
    /\ items = <<>>
    /\ selectedId = 0
    /\ call = NoCall
    /\ prevFormationSlots = emptyFormation
    /\ prevPetFormationSlots = emptyPetFormation
    /\ prevCharSlots = initialCharSlots
    /\ prevSlotTarget = NoTarget

(***************************************************************************)
(* Operations on the character formation.                                  *)
(***************************************************************************)
AssignFormation(index, item) ==
    /\ formationSlots' = assignFormation(formationSlots, index, item)
    /\ UNCHANGED <<formationPick, petFormationVars, slotVars, pickerVars, cacheVars, canvasVars, restVars>>

\* the "배치 초기화" button
ResetFormation ==
    /\ formationSlots' = emptyFormation
    /\ formationPick' = Null
    /\ UNCHANGED <<petFormationVars, slotVars, pickerVars, cacheVars, canvasVars, restVars>>

(***************************************************************************)
(* Operations on the pet formation.                                        *)
(***************************************************************************)
AssignPetFormation(index, item) ==
    /\ petFormationSlots' = assignPetFormation(petFormationSlots, index, item)
    /\ UNCHANGED <<petFormationPick, formationVars, slotVars, pickerVars, cacheVars, canvasVars, restVars>>

\* the "초기화" button of the pet formation
ResetPetFormation ==
    /\ petFormationSlots' = emptyPetFormation
    /\ petFormationPick' = Null
    /\ UNCHANGED <<formationVars, slotVars, pickerVars, cacheVars, canvasVars, restVars>>

(***************************************************************************)
(* A call is made either plainly or observed.  An observed call records    *)
(* the operation, its arguments and the arrays before it; the state after  *)
(* an observed call is inspected and not continued, the run continues from *)
(* the plain call.                                                         *)
(***************************************************************************)
Idle == call.op = "none"

Observe(observed, op, index, item) ==
    IF observed THEN Record(op, index, item) ELSE UNCHANGED historyVars

CallAssignFormation(pool) ==
    /\ Idle
    /\ \E index \in FormationPositions, item \in pool \cup {Null}, observed \in BOOLEAN :
        /\ AssignFormation(index, item)
        /\ Observe(observed, "assignFormation", index, item)

CallResetFormation ==
    /\ Idle
    /\ \E observed \in BOOLEAN :
        ResetFormation /\ Observe(observed, "resetFormation", 0, Null)

CallAssignPetFormation ==
    /\ Idle
    /\ \E index \in PetFormationPositions, item \in pets \cup {Null}, observed \in BOOLEAN :
        /\ AssignPetFormation(index, item)
        /\ Observe(observed, "assignPetFormation", index, item)

CallResetPetFormation ==
    /\ Idle
    /\ \E observed \in BOOLEAN :
        ResetPetFormation /\ Observe(observed, "resetPetFormation", 0, Null)

(***************************************************************************)
(* Spec: any sequence of assignFormation calls and formation resets.       *)
(***************************************************************************)
Next == CallAssignFormation(formationChars) \/ CallResetFormation

Spec == Init /\ [][Next]_vars

(***************************************************************************)
(* SpecPet: any sequence of assignPetFormation calls and resets.           *)
(***************************************************************************)
NextPet == CallAssignPetFormation \/ CallResetPetFormation

SpecPet == Init /\ [][NextPet]_vars

(***************************************************************************)
(* SpecFormations: both formations together, over the character catalog.   *)
(***************************************************************************)
NextFormations ==
    \/ CallAssignFormation(chars)
    \/ CallResetFormation
    \/ CallAssignPetFormation
    \/ CallResetPetFormation

SpecFormations == Init /\ [][NextFormations]_vars

(***************************************************************************)
(* The slot grid and the picker (first Page of page.tsx).                  *)
(***************************************************************************)
editorOnly == <<formationVars, petFormationVars, cacheVars, canvasVars, restVars>>

\* click on the character button of slot idx
OpenCharPicker(idx) ==
    /\ picker' = "char"
    /\ slotTarget' = [type |-> "char", slotIndex |-> idx, equipKind |-> "null"]
    /\ UNCHANGED <<slotVars, editorOnly>>

\* click on the card button of slot idx
OpenCardPicker(idx) ==
    /\ picker' = "card"
    /\ slotTarget' = [type |-> "card", slotIndex |-> idx, equipKind |-> "null"]
    /\ UNCHANGED <<slotVars, editorOnly>>

\* handleSelectToSlot(item)
SelectToSlot(item) ==
    /\ slotTarget # NoTarget
    /\ charSlots' = selectCharSlots(charSlots, slotTarget, item)
    /\ petSlots' = selectPetSlots(petSlots, slotTarget, item)
    /\ slotTarget' = NoTarget
    /\ picker' = "null"
    /\ UNCHANGED editorOnly

\* click on an entry of the list that renderSlotPickerList shows
PickEntry ==
    /\ picker # "null"
    /\ slotTarget # NoTarget
    /\ \E item \in slotPickerList(picker, slotTarget, charSlots, petSlots) :
        SelectToSlot(item)

\* the "닫기" button of the library panel
ClosePicker ==
    /\ picker # "null"
    /\ picker' = "null"
    /\ slotTarget' = NoTarget
    /\ UNCHANGED <<slotVars, editorOnly>>

\* resetSlot(type, idx, equipKind)
ResetSlot(type, idx, equipKind) ==
    /\ charSlots' = resetCharSlots(charSlots, type, idx, equipKind)
    /\ petSlots' = resetPetSlots(petSlots, type, idx)
    /\ UNCHANGED <<pickerVars, editorOnly>>

\* the "초기화" button of slot idx
ClickResetChar(idx) == ResetSlot("char", idx, "null")

\* the "X" button beside the card of slot idx, rendered when a card is set
ClickResetCard(idx) ==
    /\ charSlots[idx].card # Null
    /\ ResetSlot("card", idx, "null")

(***************************************************************************)
(* SpecPicker: the character and card fields of the slots, driven by the   *)
(* slot buttons, the picker list and the reset buttons.                    *)
(***************************************************************************)
NextPicker ==
    \/ \E idx \in SlotIndexes : OpenCharPicker(idx) /\ UNCHANGED historyVars
    \/ \E idx \in SlotIndexes : OpenCardPicker(idx) /\ UNCHANGED historyVars
    \/ PickEntry /\ UNCHANGED historyVars
    \/ ClosePicker /\ UNCHANGED historyVars
    \/ \E idx \in SlotIndexes : ClickResetChar(idx) /\ UNCHANGED historyVars
    \/ \E idx \in SlotIndexes : ClickResetCard(idx) /\ UNCHANGED historyVars

SpecPicker == Init /\ [][NextPicker]_vars

(***************************************************************************)
(* The formation panel of the first Page: the characters of the slots are  *)
(* listed, a click picks one, a click on a position places the picked one  *)
(* or empties the position.                                                *)
(***************************************************************************)
\* the characters that the formation panel lists
slotChars(cs) == {cs[i].char : i \in SlotIndexes} \ {Null}

\* setFormationPick(picked ? null : c)
PickFormationChar(c) ==
    /\ c \in slotChars(charSlots)
    /\ formationPick' = IF formationPick.id = c.id THEN Null ELSE c
    /\ UNCHANGED <<formationSlots, petFormationVars, slotVars, pickerVars, cacheVars,
                   canvasVars, restVars>>

\* click on position slotIdx of the formation
ClickFormationPosition(slotIdx) ==
    IF formationSlots[slotIdx] # Null
    THEN AssignFormation(slotIdx, Null)
    ELSE /\ formationPick # Null
         /\ AssignFormation(slotIdx, formationPick)

(***************************************************************************)
(* SpecEditor: the characters of the slots and the character formation,    *)
(* driven by the buttons of the first Page.                                *)
(***************************************************************************)
NextEditor ==
    \/ \E idx \in SlotIndexes : OpenCharPicker(idx) /\ UNCHANGED historyVars
    \/ PickEntry /\ UNCHANGED historyVars
    \/ ClosePicker /\ UNCHANGED historyVars
    \/ \E idx \in SlotIndexes : ClickResetChar(idx) /\ UNCHANGED historyVars
    \/ \E c \in chars : PickFormationChar(c) /\ UNCHANGED historyVars
    \/ \E slotIdx \in FormationPositions :
        ClickFormationPosition(slotIdx) /\ UNCHANGED historyVars
    \/ ResetFormation /\ UNCHANGED historyVars

SpecEditor == Init /\ [][NextEditor]_vars

(***************************************************************************)
(* The equipment cells of the slots.                                       *)
(***************************************************************************)
\* click on the button of equipment kind of slot idx
OpenEquipPicker(idx, kind) ==
    /\ picker' = "equip"
    /\ slotTarget' = [type |-> "equip", slotIndex |-> idx, equipKind |-> kind]
    /\ UNCHANGED <<slotVars, editorOnly>>

\* the "X" button beside an equipment of slot idx, rendered when one is set
ClickResetEquip(idx, kind) ==
    /\ charSlots[idx].equips[kind] # Null
    /\ ResetSlot("equip", idx, kind)

\* a category button of the Toolbar: onPick(t) sets the picker alone
ToolbarPick(t) ==
    /\ picker' = t
    /\ UNCHANGED <<slotTarget, slotVars, editorOnly>>

EditedSlots == 0..(NumEditedSlots - 1)

\* how many fields of the slots hold an asset
filledFields(cs) ==
    Cardinality({i \in SlotIndexes : cs[i].char # Null})
        + Cardinality({i \in SlotIndexes : cs[i].card # Null})
        + Cardinality({t \in SlotIndexes \X EquipKinds : cs[t[1]].equips[t[2]] # Null})

\* the user opens the picker of a field of an edited slot
OpenPicker ==
    /\ Idle
    /\ filledFields(charSlots) < MaxFilledFields
    /\ \E idx \in EditedSlots :
        \/ OpenCharPicker(idx)
        \/ OpenCardPicker(idx)
        \/ \E kind \in EquipKinds : OpenEquipPicker(idx, kind)
    /\ UNCHANGED historyVars

CallSelectToSlot ==
    /\ Idle
    /\ picker # "null"
    /\ slotTarget # NoTarget
    /\ \E item \in slotPickerList(picker, slotTarget, charSlots, petSlots),
          observed \in BOOLEAN :
        /\ SelectToSlot(item)
        /\ Observe(observed, "handleSelectToSlot", slotTarget.slotIndex, item)

CallClosePicker == Idle /\ ClosePicker /\ UNCHANGED historyVars

\* the user changes the category while the list of an equipment cell is open
CallToolbarPick ==
    /\ Idle
    /\ slotTarget.type = "equip"
    /\ \E t \in {"card", "char", "pet", "equip"} : ToolbarPick(t)
    /\ UNCHANGED historyVars

\* resetSlot reads neither the picker nor the target: the call is observed
\* when no list is open
CallResetChar ==
    /\ Idle
    /\ \E idx \in SlotIndexes, observed \in (IF picker = "null" THEN BOOLEAN ELSE {FALSE}) :
        ClickResetChar(idx) /\ Observe(observed, "resetChar", idx, Null)

CallResetCard ==
    /\ Idle
    /\ \E idx \in SlotIndexes :
        ClickResetCard(idx) /\ UNCHANGED historyVars

CallResetEquip ==
    /\ Idle
    /\ \E idx \in SlotIndexes, kind \in EquipKinds :
        ClickResetEquip(idx, kind) /\ UNCHANGED historyVars

(***************************************************************************)
(* SpecSlots: the character, card and equipment fields of the slots,       *)
(* driven by the slot buttons, the picker list and the reset buttons.      *)
(***************************************************************************)
NextSlots ==
    \/ OpenPicker
    \/ CallSelectToSlot
    \/ CallClosePicker
    \/ CallToolbarPick
    \/ CallResetChar
    \/ CallResetCard
    \/ CallResetEquip

SpecSlots == Init /\ [][NextSlots]_vars

(***************************************************************************)
(* SpecToolbar: the slots with the Toolbar of the first Page, whose        *)
(* category buttons change the picker whatever the slot target is.         *)
(***************************************************************************)
PressToolbar ==
    /\ Idle
    /\ \E t \in {"card", "char", "pet", "equip"} : ToolbarPick(t)
    /\ UNCHANGED historyVars

NextToolbar ==
    \/ OpenPicker
    \/ CallSelectToSlot
    \/ CallClosePicker
    \/ PressToolbar
    \/ CallResetChar
    \/ CallResetCard
    \/ CallResetEquip

SpecToolbar == Init /\ [][NextToolbar]_vars

(***************************************************************************)
(* PreviewCanvas (second Page of page.tsx): the load effect and the image  *)
(* loads.                                                                  *)
(***************************************************************************)
\* mutant: the cleanup of the load effect does not cancel the batch
cancelled_never(batch, current) == FALSE

\* the cancelled flag of the effect run that started the batch: the cleanup
\* sets it when the effect runs again
cancelled(batch, current) == batch # current

\* the load effect: the cleanup of the previous run cancels its batch (what a
\* cancelled batch settles to has no effect, so it is forgotten), then
\* setImagesLoaded(false) and loadAllImages(); a batch none of whose srcs
\* needs a load resolves at once
RunLoadEffect(cs, pfs) ==
    LET b == nBatches + 1
        started == {src \in imageSrcs(cs, pfs) : loadImageStarts(src, imageCache, loads)}
    IN  /\ nBatches' = b
        /\ loads' = loads \cup {[batch |-> b, src |-> src] : src \in started}
        /\ settled' = IF started = {} THEN {b} ELSE {}
        /\ imagesLoaded' = (started = {})
        /\ resolvedFromCache' = imageSrcs(cs, pfs) \ started
        /\ UNCHANGED <<imageCache, failedLoads>>

\* mutant: clearTimeout leaves the timeout pending
clearTimeout_noop(pending, id) == pending

\* clearTimeout(id): the timeout, if it is pending, is cancelled
clearTimeout(pending, id) == {t \in pending : t.id # id}

\* the id that window.setTimeout returns: positive and the id of no pending
\* timeout
newTimerId(pending) ==
    CHOOSE id \in 1..(Cardinality(pending) + 1) : \A t \in pending : t.id # id

\* the render effect runs for a render with props cs, pfs, text and w: the
\* cleanup of the previous run and the body both clear the timeout that
\* renderTimeoutRef names, then a timeout is set that calls the drawCanvas of
\* this render
RunRenderEffect(cs, pfs, text, w) ==
    LET afterCleanup ==
            IF renderTimeoutRef # 0 THEN clearTimeout(timers, renderTimeoutRef) ELSE timers
        cleared ==
            IF renderTimeoutRef # 0
            THEN clearTimeout(afterCleanup, renderTimeoutRef)
            ELSE afterCleanup
        id == newTimerId(cleared)
    IN  /\ timers' = cleared \cup
                {[id |-> id, charSlots |-> cs, petFormationSlots |-> pfs,
                  noteText |-> text, width |-> w]}
        /\ renderTimeoutRef' = id
        /\ renderTimer' = TRUE

\* Page renders PreviewCanvas with a new charSlots array: a character was
\* selected for slot 0
PropsChange ==
    /\ nBatches < MaxBatches
    /\ \E item \in chars :
        /\ charSlots' = [charSlots EXCEPT ![0].char = item]
        /\ RunLoadEffect(charSlots', petFormationSlots)
        /\ RunRenderEffect(charSlots', petFormationSlots, noteText, width)
    /\ UNCHANGED <<mounted, frame, noteText, width, restVars>>
    /\ UNCHANGED <<petSlots, pickerVars, formationVars, petFormationVars, historyVars>>

\* img.onload of a load in flight: the image enters the cache and the promise
\* resolves; when it was the last of its batch, Promise.all resolves and the
\* batch, unless cancelled, sets imagesLoaded
ImageLoaded(l) ==
    /\ l \in loads
    /\ imageCache' = imageCache \cup {l.src}
    /\ loads' = loads \ {l}
    /\ LET done == /\ ~cancelled(l.batch, nBatches)
                   /\ l.batch \notin settled
                   /\ ~\E m \in loads \ {l} : m.batch = l.batch
       IN  /\ settled' = IF done THEN settled \cup {l.batch} ELSE settled
           /\ imagesLoaded' = IF done THEN TRUE ELSE imagesLoaded
    /\ IF imagesLoaded' # imagesLoaded
       THEN RunRenderEffect(charSlots, petFormationSlots, noteText, width)
       ELSE UNCHANGED <<renderTimer, timers, renderTimeoutRef>>
    /\ UNCHANGED <<nBatches, failedLoads, resolvedFromCache, mounted, frame, noteText, width,
                   restVars>>
    /\ UNCHANGED <<slotVars, pickerVars, formationVars, petFormationVars, historyVars>>

\* img.onerror of a load in flight: the promise rejects; the first rejection
\* of a batch rejects its Promise.all, and the catch, unless the batch is
\* cancelled, sets imagesLoaded
ImageFailed(l) ==
    /\ l \in loads
    /\ \/ \E f \in failedLoads : f.src = l.src
       \/ Cardinality(failedLoads) < MaxFailedSrcs
    /\ loads' = loads \ {l}
    /\ failedLoads' =
        IF \E f \in failedLoads : f.src = l.src
        THEN failedLoads
        ELSE failedLoads \cup {[src |-> l.src, during |-> nBatches]}
    /\ LET first == ~cancelled(l.batch, nBatches) /\ l.batch \notin settled
       IN  /\ settled' = IF first THEN settled \cup {l.batch} ELSE settled
           /\ imagesLoaded' = IF first THEN TRUE ELSE imagesLoaded
    /\ IF imagesLoaded' # imagesLoaded
       THEN RunRenderEffect(charSlots, petFormationSlots, noteText, width)
       ELSE UNCHANGED <<renderTimer, timers, renderTimeoutRef>>
    /\ UNCHANGED <<nBatches, imageCache, resolvedFromCache, mounted, frame, noteText, width,
                   restVars>>
    /\ UNCHANGED <<slotVars, pickerVars, formationVars, petFormationVars, historyVars>>

(***************************************************************************)
(* SpecCache: PreviewCanvas under changes of its props and the outcomes of *)
(* its image loads.                                                        *)
(***************************************************************************)
NextCache ==
    \/ PropsChange
    \/ \E l \in loads : ImageLoaded(l)
    \/ \E l \in loads : ImageFailed(l)

SpecCache == Init /\ [][NextCache]_vars

(***************************************************************************)
(* SpecBatches: the batches of PreviewCanvas when the props change while   *)
(* loads are in flight, with loads that succeed and loads that fail.       *)
(***************************************************************************)
NextBatches ==
    \/ Cardinality(loads) < MaxLoadsInFlight /\ PropsChange
    \/ \E l \in loads : ImageLoaded(l)
    \/ \E l \in loads : ImageFailed(l)

SpecBatches == Init /\ [][NextBatches]_vars

(***************************************************************************)
(* SpecLoads: PreviewCanvas when every image load succeeds.                *)
(***************************************************************************)
NextLoads ==
    \/ PropsChange
    \/ \E l \in loads : ImageLoaded(l)

SpecLoads == Init /\ [][NextLoads]_vars

(***************************************************************************)
(* The canvas: drawCanvas runs when the timeout of the render effect       *)
(* fires.                                                                  *)
(***************************************************************************)
\* the srcs that the current batch is still loading
unsettledSrcs == {l.src : l \in {m \in loads : m.batch = nBatches}}

\* a timeout fires: the drawCanvas of the render that set it runs; it returns
\* at once when the canvas element is gone
Draw ==
    /\ renderTimer
    /\ \E t \in timers :
        /\ timers' = timers \ {t}
        /\ renderTimer' = (timers' # {})
        /\ frame' = IF mounted
                     THEN drawCanvas(t.width, t.charSlots, t.petFormationSlots, t.noteText,
                                     imageCache, unsettledSrcs)
                     ELSE frame
    /\ UNCHANGED <<renderTimeoutRef, mounted, noteText, width, restVars>>
    /\ UNCHANGED <<formationVars, petFormationVars, slotVars, pickerVars, cacheVars,
                   historyVars>>

(***************************************************************************)
(* handleSave of the first Page: the container is restyled, captured with  *)
(* html2canvas and styled back.  The function is async: an invocation runs *)
(* up to its await, and after the promise has settled from there on.       *)
(***************************************************************************)
\* invocation k up to `await html2canvas(node, ...)`
StartSave(k) ==
    /\ savePc[k] = "idle"
    /\ savePrev' = [savePrev EXCEPT ![k] = nodeStyle]
    /\ nodeStyle' = captureStyle
    /\ savePc' = [savePc EXCEPT ![k] = "awaiting"]

\* html2canvas resolves: invocation k restores the style from its prev and
\* offers the download
FinishSave(k) ==
    /\ savePc[k] = "awaiting"
    /\ nodeStyle' = savePrev[k]
    /\ savePc' = [savePc EXCEPT ![k] = "done"]
    /\ UNCHANGED savePrev

\* html2canvas rejects: the await throws and invocation k ends there
FailSave(k) ==
    /\ savePc[k] = "awaiting"
    /\ savePc' = [savePc EXCEPT ![k] = "failed"]
    /\ UNCHANGED <<nodeStyle, savePrev>>

(***************************************************************************)
(* SpecSave: the save button pressed up to MaxSaves times.                 *)
(***************************************************************************)
saveOnly ==
    <<formationVars, petFormationVars, slotVars, pickerVars, cacheVars, canvasVars,
      download, storeVars, historyVars>>

NextSave ==
    \/ \E k \in Saves : StartSave(k) /\ UNCHANGED saveOnly
    \/ \E k \in Saves : FinishSave(k) /\ UNCHANGED saveOnly
    \/ \E k \in Saves : FailSave(k) /\ UNCHANGED saveOnly

SpecSave == Init /\ [][NextSave]_vars

(***************************************************************************)
(* The editor store.                                                       *)
(***************************************************************************)
ItemIds == 1..NumItemIds

\* mutant: the top of the stack is taken to be the number of items
maxZ_length(its) == Len(its)

RECURSIVE maxZ(_)
\* state.items.reduce((acc, cur) => Math.max(acc, cur.zIndex), 0)
maxZ(its) ==
    IF its = <<>> THEN 0
    ELSE LET acc == maxZ(SubSeq(its, 1, Len(its) - 1))
             cur == its[Len(its)]
         IN  IF cur.zIndex > acc THEN cur.zIndex ELSE acc

itemIds(its) == {its[i].id : i \in DOMAIN its}

\* addItem(type, src): the new item, with an id of nanoid() that no item has,
\* is appended with zIndex maxZ + 1 and selected
addItem ==
    /\ maxZ(items) < MaxZIndex
    /\ \E id \in ItemIds \ itemIds(items) :
        /\ items' = Append(items, [id |-> id, zIndex |-> maxZ(items) + 1])
        /\ selectedId' = id

\* setSelected(id), with an id or null
setSelected(id) ==
    /\ selectedId' = id
    /\ UNCHANGED items

\* removeItem(id)
removeItem(id) ==
    /\ items' = SelectSeq(items, LAMBDA item : item.id # id)
    /\ selectedId' = IF selectedId = id THEN 0 ELSE selectedId

\* removeSelected()
removeSelected ==
    /\ items' = SelectSeq(items, LAMBDA item : item.id # selectedId)
    /\ selectedId' = 0

\* bringToFront(id)
bringToFront(id) ==
    /\ maxZ(items) < MaxZIndex
    /\ items' = [i \in DOMAIN items |->
                    IF items[i].id = id
                    THEN [items[i] EXCEPT !.zIndex = maxZ(items) + 1]
                    ELSE items[i]]
    /\ UNCHANGED selectedId

(***************************************************************************)
(* SpecStore: the editor store under its operations other than updateItem. *)
(***************************************************************************)
storeOnly ==
    <<formationVars, petFormationVars, slotVars, pickerVars, cacheVars, canvasVars,
      download, saveVars, historyVars>>

NextStore ==
    \/ addItem /\ UNCHANGED storeOnly
    \/ \E id \in ItemIds \cup {0} : setSelected(id) /\ UNCHANGED storeOnly
    \/ \E id \in ItemIds : removeItem(id) /\ UNCHANGED storeOnly
    \/ removeSelected /\ UNCHANGED storeOnly
    \/ \E id \in ItemIds : bringToFront(id) /\ UNCHANGED storeOnly

SpecStore == Init /\ [][NextStore]_vars

\* mutant: the export draws the canvas anew before it reads it
HandleSave_draws ==
    /\ frame' = drawCanvas(width, charSlots, petFormationSlots, noteText, imageCache,
                           unsettledSrcs)
    /\ download' = [saved |-> TRUE, png |-> frame']
    /\ UNCHANGED <<renderTimer, timers, renderTimeoutRef, mounted, noteText, width>>
    /\ UNCHANGED <<formationVars, petFormationVars, slotVars, pickerVars, cacheVars,
                   saveVars, storeVars>>

\* handleSave of the second Page: canvas.toDataURL("image/png") of the canvas
\* that PreviewCanvas draws on, offered as a download
HandleSave ==
    /\ download' = [saved |-> TRUE, png |-> frame]
    /\ UNCHANGED canvasVars
    /\ UNCHANGED <<formationVars, petFormationVars, slotVars, pickerVars, cacheVars,
                   saveVars, storeVars>>

\* the export is the last step that is followed
CallHandleSave == Idle /\ HandleSave /\ Record("handleSave", 0, Null)

(***************************************************************************)
(* SpecExport: the loads, the draws and the PNG export.                    *)
(***************************************************************************)
NextExport ==
    \/ Idle /\ Cardinality(loads) < MaxLoadsInFlight /\ PropsChange
    \/ Idle /\ \E l \in loads : ImageLoaded(l)
    \/ Idle /\ Draw
    \/ CallHandleSave

SpecExport == Init /\ [][NextExport]_vars

\* the targets of slot 0 and the entries that the picker shows for them
slot0Targets ==
    {[type |-> "char", slotIndex |-> 0, equipKind |-> "null"],
     [type |-> "card", slotIndex |-> 0, equipKind |-> "null"],
     [type |-> "equip", slotIndex |-> 0, equipKind |-> "weapon"]}

\* the second Page: handleSelectToSlot(item) for a target of slot 0, or for
\* the pet target of lane 0; PreviewCanvas is rendered with the new arrays
ModelChange ==
    /\ nBatches < MaxBatches
    /\ \/ \E target \in slot0Targets :
            \E item \in slotPickerList(target.type, target, charSlots, petSlots) :
                /\ charSlots' = selectCharSlots(charSlots, target, item)
                /\ UNCHANGED petFormationSlots
       \/ \E item \in pets :
            /\ petFormationSlots' = assignPetFormation(petFormationSlots, 0, item)
            /\ UNCHANGED charSlots
    /\ RunLoadEffect(charSlots', petFormationSlots')
    /\ RunRenderEffect(charSlots', petFormationSlots', noteText, width)
    /\ UNCHANGED <<mounted, frame, noteText, width, restVars>>
    /\ UNCHANGED <<petSlots, pickerVars, formationVars, petFormationPick, historyVars>>

(***************************************************************************)
(* SpecCanvas: PreviewCanvas under selections, the outcomes of its image   *)
(* loads and its draw passes.                                              *)
(***************************************************************************)
NextCanvas ==
    \/ ModelChange
    \/ \E l \in loads : ImageLoaded(l)
    \/ \E l \in loads : ImageFailed(l)
    \/ Draw

SpecCanvas == Init /\ [][NextCanvas]_vars

(***************************************************************************)
(* SpecSettle: the loads and the draw passes of PreviewCanvas until they   *)
(* come to rest.  An Image fires onload or onerror in the end, and the     *)
(* timeout of the render effect fires unless it is cleared; the props      *)
(* change a bounded number of times.                                       *)
(***************************************************************************)
LoadSettles == \E l \in loads : ImageLoaded(l) \/ ImageFailed(l)

NextSettle ==
    \/ PropsChange
    \/ LoadSettles
    \/ Draw

SpecSettle ==
    /\ Init
    /\ [][NextSettle]_vars
    /\ WF_vars(LoadSettles)
    /\ WF_vars(Draw)

\* the widths a caller renders PreviewCanvas with
canvasWidths == {-12800, 0, 6400, 12800}

\* PreviewCanvas is rendered with another width: drawCanvas is a new
\* function and the render effect runs
RenderWidth(w) ==
    /\ w # width
    /\ width' = w
    /\ RunRenderEffect(charSlots, petFormationSlots, noteText, w)
    /\ UNCHANGED <<mounted, frame, noteText, restVars>>
    /\ UNCHANGED <<formationVars, petFormationVars, slotVars, pickerVars, cacheVars,
                   historyVars>>

(***************************************************************************)
(* SpecWidth: PreviewCanvas under changes of its width.                    *)
(***************************************************************************)
NextWidth ==
    \/ \E w \in canvasWidths : RenderWidth(w)
    \/ \E l \in loads : ImageLoaded(l)
    \/ Draw

SpecWidth == Init /\ [][NextWidth]_vars

\* how many words and line breaks the note has
noteTokens(text) == Len(text) - 1 + sumWidths([k \in DOMAIN text |-> Len(text[k])])

\* the textarea: setNoteText(e.target.value); drawCanvas is a new function
\* and the render effect runs
SetNoteText(text) ==
    /\ noteText' = text
    /\ RunRenderEffect(charSlots, petFormationSlots, text, width)
    /\ UNCHANGED <<mounted, frame, width, restVars>>
    /\ UNCHANGED <<formationVars, petFormationVars, slotVars, pickerVars, cacheVars,
                   historyVars>>

\* the user types a word at the end of the note
TypeWord ==
    /\ noteTokens(noteText) < MaxNoteTokens
    /\ \E word \in wordWidths :
        SetNoteText([noteText EXCEPT ![Len(noteText)] = Append(@, word)])

\* the user types a line break at the end of the note
TypeNewline ==
    /\ noteTokens(noteText) < MaxNoteTokens
    /\ SetNoteText(Append(noteText, <<>>))

(***************************************************************************)
(* SpecNote: the note is typed and drawn.                                  *)
(***************************************************************************)
NextNote ==
    \/ TypeWord
    \/ TypeNewline
    \/ Draw

SpecNote == Init /\ [][NextNote]_vars

\* PreviewCanvas unmounts: the cleanup of the render effect clears the timeout
\* that renderTimeoutRef names
Unmount ==
    /\ mounted
    /\ mounted' = FALSE
    /\ timers' = IF renderTimeoutRef # 0
                  THEN clearTimeout(timers, renderTimeoutRef)
                  ELSE timers
    /\ renderTimer' = (timers' # {})
    /\ UNCHANGED <<renderTimeoutRef, frame, noteText, width, restVars>>
    /\ UNCHANGED <<formationVars, petFormationVars, slotVars, pickerVars, cacheVars,
                   historyVars>>

(***************************************************************************)
(* SpecTimer: the mounted PreviewCanvas under changes of the model, of the *)
(* note, of the width and of imagesLoaded, until it unmounts.              *)
(***************************************************************************)
NextTimer ==
    \/ (mounted /\ Cardinality(loads) <= MaxTimerLoads /\ PropsChange)
    \/ (mounted /\ noteTokens(noteText) < MaxTimerBreaks /\ TypeNewline)
    \/ (mounted /\ \E w \in {6400, pageWidth} : RenderWidth(w))
    \/ (mounted /\ \E l \in loads : ImageLoaded(l))
    \/ Draw
    \/ Unmount

SpecTimer == Init /\ [][NextTimer]_vars

(***************************************************************************)
(* Properties of the formations.                                           *)
(***************************************************************************)
\* the last call was assignFormation(call.index, call.item) with an item
AssignedItem == call.op = "assignFormation" /\ call.item # Null

\* where the item of the last call was before the call, or -1
ExistingBefore == findIndexById(prevFormationSlots, call.item.id)

lanePositions(l) == {i \in FormationPositions : laneOf(i) = l}

\* C1: at most 5 positions of the character formation are occupied, and each
\* lane (positions 0-1, 2-3, 4-5) holds at most 2 characters.
C1_FormationCapacity ==
    /\ filledCount(formationSlots) <= 5
    /\ \A l \in 0..2 : laneCountsOf(formationSlots)[l] <= 2

\* C1 witness: a sixth character was assigned to the empty position of a
\* formation of 5, and 5 positions are occupied afterwards.
C1_Witness ==
    /\ AssignedItem
    /\ ExistingBefore = -1
    /\ prevFormationSlots[call.index] = Null
    /\ filledCount(prevFormationSlots) = 5
    /\ filledCount(formationSlots) = 5

\* C2: no asset id occupies two positions of the character formation, and no
\* asset id occupies two positions of the pet formation.
C2_UniqueInFormations ==
    /\ \A i, j \in FormationPositions :
        (i # j /\ formationSlots[i] # Null) => formationSlots[i].id # formationSlots[j].id
    /\ \A i, j \in PetFormationPositions :
        (i # j /\ petFormationSlots[i] # Null)
            => petFormationSlots[i].id # petFormationSlots[j].id

\* C2 witness: a character that was placed has been assigned to another
\* position, next to a second character and a placed pet.
C2_Witness ==
    /\ AssignedItem
    /\ ExistingBefore \notin {-1, call.index}
    /\ filledCount(formationSlots) >= 2
    /\ filledCount(petFormationSlots) >= 1

\* C3 (as claimed): assigning a placed character X to another position q
\* always relocates it: afterwards its old position is empty and q holds X.
C3_RelocationNeverRejected ==
    (AssignedItem /\ ExistingBefore \notin {-1, call.index})
        => /\ formationSlots[ExistingBefore] = Null
           /\ formationSlots[call.index] = call.item

\* C4: assigning a character to the position it occupies clears that position
\* and leaves the other five unchanged; from the empty formation, A to 0,
\* A to 1, A to 1 ends with the empty formation.
C4_ToggleOff ==
    /\ (AssignedItem /\ prevFormationSlots[call.index].id = call.item.id)
        => formationSlots = [prevFormationSlots EXCEPT ![call.index] = Null]
    /\ formationSlots = emptyFormation
        => \A A \in formationChars :
            assignFormation(assignFormation(assignFormation(formationSlots, 0, A), 1, A), 1, A)
                = emptyFormation

\* C4 witness: a character was assigned to its own position while another
\* position was occupied.
C4_Witness ==
    /\ AssignedItem
    /\ prevFormationSlots[call.index].id = call.item.id
    /\ filledCount(prevFormationSlots) >= 2
    /\ formationSlots[call.index] = Null

\* C5: assigning a character that is not in the formation to an empty position
\* is rejected exactly when 5 positions are occupied: then the formation is
\* unchanged and the same call again changes nothing; otherwise the position
\* holds the character and the other positions are unchanged.
C5_SixthRejected ==
    (AssignedItem /\ ExistingBefore = -1 /\ prevFormationSlots[call.index] = Null)
        => IF filledCount(prevFormationSlots) = 5
           THEN /\ formationSlots = prevFormationSlots
                /\ assignFormation(formationSlots, call.index, call.item) = formationSlots
           ELSE formationSlots = [prevFormationSlots EXCEPT ![call.index] = call.item]

\* C5 witness: a sixth character was assigned to the empty position of a
\* formation of 5.
C5_Witness ==
    /\ AssignedItem
    /\ ExistingBefore = -1
    /\ prevFormationSlots[call.index] = Null
    /\ filledCount(prevFormationSlots) = 5
    /\ formationSlots = prevFormationSlots

\* a third, not yet placed character was assigned to a position of a lane
\* that held 2
ThirdIntoFullLane ==
    /\ AssignedItem
    /\ ExistingBefore = -1
    /\ laneCountsOf(prevFormationSlots)[laneOf(call.index)] = 2

\* C6 (as claimed): a third character assigned into a lane that holds 2 leaves
\* both positions of the lane unchanged.
C6_FullLaneUnchanged ==
    ThirdIntoFullLane
        => \A i \in lanePositions(laneOf(call.index)) :
                formationSlots[i] = prevFormationSlots[i]

\* C6 (amended): a third character assigned into a lane that holds 2 replaces
\* the character at the target position; the other position of the lane and
\* every other position are unchanged, so the lane still holds 2.
C6_FullLaneReplaces ==
    ThirdIntoFullLane
        => /\ formationSlots = [prevFormationSlots EXCEPT ![call.index] = call.item]
           /\ laneCountsOf(formationSlots)[laneOf(call.index)] = 2

\* C6 witness: a third character was assigned into a full lane of a formation
\* of fewer than 5.
C6_Witness ==
    /\ ThirdIntoFullLane
    /\ filledCount(prevFormationSlots) < 5
    /\ formationSlots[call.index] = call.item

\* the last call assigned a character that was not in the formation to a
\* position that held another character
ReplacedByNew ==
    /\ call.op = "assignFormation"
    /\ call.item # Null
    /\ findIndexById(prevFormationSlots, call.item.id) = -1
    /\ prevFormationSlots[call.index] # Null

\* C22: a character that is not in the formation, assigned to a position that
\* holds another character, always replaces it: the position holds the new
\* character, the old one is nowhere in the formation, the other positions
\* and the number of occupied positions are unchanged.
C22_ReplacementNeverRejected ==
    ReplacedByNew
        => /\ formationSlots[call.index] = call.item
           /\ findIndexById(formationSlots, prevFormationSlots[call.index].id) = -1
           /\ \A i \in FormationPositions \ {call.index} :
                formationSlots[i] = prevFormationSlots[i]
           /\ filledCount(formationSlots) = filledCount(prevFormationSlots)

\* C22 witness: the replacement happened in a formation of 5, in a lane that
\* held 2.
C22_Witness ==
    /\ ReplacedByNew
    /\ filledCount(prevFormationSlots) = 5
    /\ laneCountsOf(prevFormationSlots)[laneOf(call.index)] = 2
    /\ formationSlots[call.index] = call.item

\* the last call was assignPetFormation(call.index, call.item)
AssignedPet == call.op = "assignPetFormation"

\* where the pet of the last call was before the call, or -1
PetExistingBefore == findIndexById(prevPetFormationSlots, call.item.id)

\* null clears the position; a pet at another position is moved there
PetClearOrMove ==
    /\ (AssignedPet /\ call.item = Null)
        => petFormationSlots = [prevPetFormationSlots EXCEPT ![call.index] = Null]
    /\ (AssignedPet /\ call.item # Null /\ PetExistingBefore \notin {-1, call.index})
        => petFormationSlots =
            [prevPetFormationSlots EXCEPT ![PetExistingBefore] = Null,
                                          ![call.index] = call.item]
    /\ (AssignedPet /\ call.item # Null /\ PetExistingBefore = -1)
        => petFormationSlots = [prevPetFormationSlots EXCEPT ![call.index] = call.item]

\* C7 (as claimed): assignPetFormation clears on null, moves a pet placed
\* elsewhere, and clears a pet assigned to the position it occupies, as
\* assignFormation does.
C7_PetSameAsFormation ==
    /\ PetClearOrMove
    /\ (AssignedPet /\ call.item # Null /\ PetExistingBefore = call.index)
        => petFormationSlots = [prevPetFormationSlots EXCEPT ![call.index] = Null]
    /\ AssignedPet
        => petFormationSlots = assignFormation(prevPetFormationSlots, call.index, call.item)

\* C7 (amended): assignPetFormation clears on null and moves a pet placed
\* elsewhere, as assignFormation does; a pet assigned to the position it
\* occupies stays there and the pet formation is unchanged.
C7_PetMoveOrKeep ==
    /\ PetClearOrMove
    /\ (AssignedPet /\ call.item # Null /\ PetExistingBefore = call.index)
        => petFormationSlots = prevPetFormationSlots
    /\ (AssignedPet /\ ~(call.item # Null /\ PetExistingBefore = call.index))
        => petFormationSlots = assignFormation(prevPetFormationSlots, call.index, call.item)

\* C7 witness: a pet was moved from another position while a second pet was
\* placed.
C7_Witness ==
    /\ AssignedPet
    /\ call.item # Null
    /\ PetExistingBefore \notin {-1, call.index}
    /\ filledCount(petFormationSlots) >= 2
    /\ petFormationSlots[call.index] = call.item

(***************************************************************************)
(* Properties of the slots and the picker.                                 *)
(***************************************************************************)
\* C8: no asset id is in the char field of two character slots, and no asset
\* id is in the card field of two character slots.  It holds while the list
\* of a slot is the one its own button opened (SpecPicker); with the Toolbar
\* of the first Page the list of a character target can be another category,
\* which is not narrowed by the characters in use (SpecToolbar).
C8_UniqueCharAndCard ==
    \A i, j \in SlotIndexes :
        i # j =>
            /\ charSlots[i].char # Null => charSlots[i].char.id # charSlots[j].char.id
            /\ charSlots[i].card # Null => charSlots[i].card.id # charSlots[j].card.id

\* C8 witness: two slots hold characters and two slots hold cards, and the
\* picker, open for the character of one of them, lists the slot's own
\* character and not the other slot's.
C8_Witness ==
    \E i, j \in SlotIndexes :
        /\ i # j
        /\ charSlots[i].char # Null /\ charSlots[j].char # Null
        /\ charSlots[i].card # Null /\ charSlots[j].card # Null
        /\ picker = "char"
        /\ slotTarget = [type |-> "char", slotIndex |-> i, equipKind |-> "null"]
        /\ charSlots[i].char \in slotPickerList(picker, slotTarget, charSlots, petSlots)
        /\ charSlots[j].char \notin slotPickerList(picker, slotTarget, charSlots, petSlots)

\* C26: the char field of a slot holds a character of the character catalog,
\* the card field a card, an equips field an equipment and a pet slot a pet.
C26_FieldsFromOwnCatalog ==
    /\ \A i \in SlotIndexes :
        /\ charSlots[i].char \in chars \cup {Null}
        /\ charSlots[i].card \in cards \cup {Null}
        /\ \A kind \in EquipKinds : charSlots[i].equips[kind] \in equips \cup {Null}
    /\ \A i \in PetSlotIndexes : petSlots[i] \in pets \cup {Null}

\* C27: every character of the formation and the picked character are in
\* the char field of a slot; every pet of the pet formation and the picked
\* pet are in a pet slot.
C27_FormationWithinSlots ==
    /\ \A p \in FormationPositions :
        formationSlots[p] # Null => formationSlots[p] \in slotChars(charSlots)
    /\ formationPick # Null => formationPick \in slotChars(charSlots)
    /\ \A p \in PetFormationPositions :
        petFormationSlots[p] # Null
            => \E i \in PetSlotIndexes : petSlots[i] = petFormationSlots[p]
    /\ petFormationPick # Null
            => \E i \in PetSlotIndexes : petSlots[i] = petFormationPick

\* the slot in its pristine shape
pristineSlot(i) ==
    [id |-> i + 1, char |-> Null, card |-> Null,
     equips |-> [kind \in EquipKinds |-> Null]]

\* C17: resetSlot("char", i) leaves slot i with its id and with no
\* character, no card and no equipment, whatever it held, and leaves the
\* other four slots unchanged.
C17_ResetSlotPristine ==
    call.op = "resetChar" =>
        /\ charSlots[call.index] = pristineSlot(call.index)
        /\ charSlots[call.index].id = prevCharSlots[call.index].id
        /\ \A j \in SlotIndexes \ {call.index} : charSlots[j] = prevCharSlots[j]

\* C17 witness: a slot that held an equipment was reset while another slot
\* held an asset.
C17_Witness ==
    /\ call.op = "resetChar"
    /\ \E kind \in EquipKinds : prevCharSlots[call.index].equips[kind] # Null
    /\ \E j \in SlotIndexes \ {call.index} : charSlots[j] # pristineSlot(j)

\* C18: an asset in equips[kind] of a slot is classified by getEquipKind as
\* kind or as other.
C18_EquipKindMatches ==
    \A i \in SlotIndexes, kind \in EquipKinds :
        charSlots[i].equips[kind] # Null
            => getEquipKind(charSlots[i].equips[kind].src) \in {kind, "other"}

\* C18 witness: an equipment classified as other was selected for a cell
\* while another cell holds an equipment of its own kind.
C18_Witness ==
    /\ call.op = "handleSelectToSlot"
    /\ prevSlotTarget.type = "equip"
    /\ getEquipKind(call.item.src) = "other"
    /\ \E i, j \in SlotIndexes, k, m \in EquipKinds :
        /\ charSlots[i].equips[k] # Null
        /\ getEquipKind(charSlots[i].equips[k].src) = k
        /\ charSlots[j].equips[m] # Null
        /\ getEquipKind(charSlots[j].equips[m].src) = "other"

\* the slots with item in the field that target names
withField(cs, target, item) ==
    [i \in SlotIndexes |->
        IF i # target.slotIndex THEN cs[i]
        ELSE [id |-> cs[i].id,
              char |-> IF target.type = "char" THEN item ELSE cs[i].char,
              card |-> IF target.type = "card" THEN item ELSE cs[i].card,
              equips |-> [k \in EquipKinds |->
                            IF target.type = "equip" /\ target.equipKind = k
                            THEN item ELSE cs[i].equips[k]]]]

\* C19: a selection for the character, card or equipment target of slot i
\* sets that field of slot i to the item and changes nothing else: not the
\* other fields of the slot, not another slot (even one that holds the same
\* asset), not the formations.
C19_SelectChangesOneField ==
    (call.op = "handleSelectToSlot" /\ prevSlotTarget.type \in {"char", "card", "equip"})
        => /\ charSlots = withField(prevCharSlots, prevSlotTarget, call.item)
           /\ formationSlots = prevFormationSlots
           /\ petFormationSlots = prevPetFormationSlots
           /\ petSlots = initialPetSlots

\* C19 witness: an equipment was selected for a slot while another slot
\* held the same equipment, and holds it still.
C19_Witness ==
    /\ call.op = "handleSelectToSlot"
    /\ prevSlotTarget.type = "equip"
    /\ \E j \in SlotIndexes \ {call.index}, k \in EquipKinds :
        /\ prevCharSlots[j].equips[k] = call.item
        /\ charSlots[j].equips[k] = call.item
    /\ charSlots[call.index].equips[prevSlotTarget.equipKind] = call.item

(***************************************************************************)
(* Properties of the image cache.                                          *)
(***************************************************************************)
\* C9 (as claimed): at no time is more than one load in flight for a src.
C9_OneLoadPerSrc == \A l, m \in loads : l.src = m.src => l = m

\* C10 (as claimed): after a load of a src has failed, the cache holds no
\* image for the src and no later batch starts a load of it.
C10_FailedNeverRetried ==
    \A f \in failedLoads :
        /\ f.src \notin imageCache
        /\ \A l \in loads : l.src = f.src => l.batch <= f.during

\* C11: a src that is in the cache stays in the cache, and no load is started
\* for a src that is in the cache: a later loadImage of it returns the cached
\* image.
C11_CachedForGood ==
    [][/\ imageCache \subseteq imageCache'
       /\ \A l \in loads' \ loads : l.src \notin imageCache
       /\ nBatches' # nBatches
            => imageSrcs(charSlots', petFormationSlots') \cap imageCache
                    \subseteq resolvedFromCache']_vars

\* C11 witness: the current batch, not the first, got a lane icon from the
\* cache while it had to load another src.
C11_Witness ==
    /\ nBatches > 1
    /\ getLaneIconSrc("back") \in resolvedFromCache
    /\ getLaneIconSrc("back") \in imageCache
    /\ \E l \in loads : l.batch = nBatches

(***************************************************************************)
(* Properties of the canvas.                                               *)
(***************************************************************************)
\* C12 (as claimed): a draw pass runs only when no src of the current batch
\* is still loading.
C12_DrawOnlyWhenSettled == frame.drawn => frame.unsettled = {}

\* C13 (as claimed): in a draw pass, every region that has an asset whose
\* image is not drawn gets the filled rectangle with the asset's name.
C13_FallbackEverywhere ==
    frame.drawn =>
        \A r \in Regions :
            (frame.assets[r] # Null /\ frame.regions[r] # "image")
                => frame.regions[r] = "fallback"

\* C14 (as claimed): no line drawn in the note region is wider than the note
\* area.
C14_NoLineTooWide ==
    frame.drawn =>
        \A idx \in DOMAIN frame.note :
            measureText(frame.note[idx].line) <= noteAreaWidth(frame.width)

\* the words of a sequence of lines or paragraphs, in order
RECURSIVE flatten(_)
flatten(seqs) == IF seqs = <<>> THEN <<>> ELSE Head(seqs) \o flatten(Tail(seqs))

\* the frame on the canvas is the drawing of the current note
NoteDrawn == frame.drawn /\ ~renderTimer

\* C15: the wrapped lines of a note are never more than
\* floor(noteAreaHeight / lineHeight) = 6, and a draw pass draws each of them
\* once, line idx at row idx, so that the words drawn are the first words of
\* the note, none twice.
C15_AtMostMaxLines ==
    LET lines == wrapNote(noteText, noteAreaWidth(width), maxLines)
    IN  /\ Len(lines) <= noteAreaHeight \div lineHeight
        /\ Len(lines) <= 6
        /\ NoteDrawn =>
            /\ Len(frame.note) = Len(lines)
            /\ \A idx \in DOMAIN frame.note :
                /\ frame.note[idx].line = lines[idx]
                /\ frame.note[idx].y
                        = bottomSectionY(width) + 400 + (idx - 1) * lineHeight
            /\ \A i, j \in DOMAIN frame.note :
                    i # j => frame.note[i].y # frame.note[j].y
            /\ LET drawnWords == flatten([idx \in DOMAIN frame.note |-> frame.note[idx].line])
               IN  drawnWords = SubSeq(flatten(noteText), 1, Len(drawnWords))

\* C15 witness: a note of 7 words, each too wide to share a line, is drawn
\* as 6 lines.
C15_Witness ==
    /\ NoteDrawn
    /\ Len(noteText) = 1
    /\ Len(noteText[1]) = 7
    /\ \A k \in 1..7 : measureText(<<noteText[1][k], noteText[1][k]>>) > noteAreaWidth(width)
    /\ Len(frame.note) = 6

\* C16 (as claimed): at the shared canvas width every overlay button has the
\* x, y, width and height of the region that drawCanvas drew for it.
C16_OverlayMatchesCanvas ==
    (frame.drawn /\ frame.width = pageWidth)
        => \A r \in Regions : overlayRegion(r) = canvasRegion(frame.width, r)

\* C20 (as claimed): drawCanvas for a non-positive width fails before it
\* computes geometry or resizes the canvas, so no frame is drawn for such a
\* width.
C20_FailsFastOnBadWidth == frame.drawn => frame.width > 0

\* the srcs for which the current batch has a load in flight
currentLoadSrcs(ls, n) == {l.src : l \in {m \in ls : m.batch = n}}

\* C23: when the props change while loads are in flight, the new batch covers
\* the srcs of the new props (each is resolved from the cache or gets a load
\* of the new batch), no load in flight is dropped, a load of a superseded
\* batch that completes puts its image in the cache unless it fails, and its
\* completion leaves imagesLoaded as it is.
C23_SupersededBatch ==
    [][/\ nBatches' # nBatches
            => /\ loads \subseteq loads'
               /\ currentLoadSrcs(loads', nBatches') \cup resolvedFromCache'
                    = imageSrcs(charSlots', petFormationSlots')
               /\ {l.src : l \in loads' \ loads} = currentLoadSrcs(loads', nBatches')
       /\ \A l \in loads \ loads' :
            l.batch # nBatches
                => /\ l.src \in imageCache' \/ \E f \in failedLoads' : f.src = l.src
                   /\ imagesLoaded' = imagesLoaded]_vars

\* C23 witness: the props changed while a batch was outstanding; every load
\* of the superseded batch has completed and one of them put a lane icon in
\* the cache, for which the load of the current batch is still in flight; the
\* images are not marked as loaded.
C23_Witness ==
    /\ nBatches > 1
    /\ ~imagesLoaded
    /\ \A l \in loads : l.batch = nBatches
    /\ \E src \in imageCache :
        /\ src = getLaneIconSrc("back")
        /\ [batch |-> nBatches, src |-> src] \in loads

\* rectangle a lies between the top and the bottom of rectangle b
insideVertically(a, b) == a.y >= b.y /\ a.y + a.h <= b.y + b.h

\* C24: what is drawn for a character cell - the character image, the card
\* image, the background of the equipment row and the 4 equipment cells -
\* lies vertically inside the background rectangle of the cell.
C24_CellHoldsItsRegions ==
    (frame.drawn /\ frame.width > 0)
        => \A i \in SlotIndexes :
            /\ insideVertically(equipRowRect(frame.width, i), cellRect(frame.width, i))
            /\ \A r \in Regions :
                (r.index = i /\ r.kind \in {"char", "card", "equip"})
                    => insideVertically(canvasRegion(frame.width, r), cellRect(frame.width, i))

\* the frame on the canvas shows the image of every assigned asset that the
\* cache holds
FrameShowsCachedImages ==
    /\ frame.drawn
    /\ \A r \in Regions :
        LET item == regionAsset(charSlots, petFormationSlots, r)
        IN  (item # Null /\ item.src \in imageCache) => frame.regions[r] = "image"

\* C25: once the props have stopped changing and every load has settled, the
\* canvas comes to show, and keeps showing, the image of every assigned asset
\* whose image is in the cache.
C25_FinalFrameShowsImages == <>[]FrameShowsCachedImages

(***************************************************************************)
(* Properties of the draw pass and the export.                             *)
(***************************************************************************)
\* C21: a draw pass and a PNG export leave the slots, the formations and the
\* image cache unchanged and start no load; the export reads the frame that
\* is on the canvas and neither draws nor schedules a draw.
C21_DrawAndExportReadOnly ==
    [][((renderTimer /\ ~renderTimer') \/ download' # download)
        => /\ UNCHANGED <<formationVars, petFormationVars, slotVars>>
           /\ UNCHANGED <<imageCache, loads, nBatches, imagesLoaded>>
           /\ download' # download
                => /\ frame' = frame
                   /\ renderTimer' = renderTimer
                   /\ download'.png = frame]_vars

\* C21 witness: a drawn canvas was exported while a load was in flight and
\* a draw was pending.
C21_Witness ==
    /\ call.op = "handleSave"
    /\ download.png.drawn
    /\ imageCache # {}
    /\ loads # {}
    /\ renderTimer

\* C28: when every handleSave invocation that was started has finished, with
\* a capture or with a failure of html2canvas, the inline style of the
\* container is what it was before the first invocation.
C28_StyleRestored ==
    (\A k \in Saves : savePc[k] # "awaiting") => nodeStyle = initialStyle


\* the props that the drawCanvas of the timeout t closes over are the props of
\* the latest render
ClosesOverLatest(t) ==
    /\ t.charSlots = charSlots
    /\ t.petFormationSlots = petFormationSlots
    /\ t.noteText = noteText
    /\ t.width = width

\* C29: at most one deferred draw is pending; it is the one that
\* renderTimeoutRef names and it draws the latest model, note and width; none
\* is pending once PreviewCanvas has unmounted.
C29_OneDeferredDraw ==
    /\ Cardinality(timers) <= 1
    /\ \A t \in timers : t.id = renderTimeoutRef /\ ClosesOverLatest(t)
    /\ ~mounted => timers = {}
    /\ renderTimer = (timers # {})

\* the model, the note and the width changed and imagesLoaded was set before any
\* timeout fired, and one timeout is pending
C29_Witness ==
    /\ mounted
    /\ frame = NoFrame
    /\ charSlots # initialCharSlots
    /\ noteText # emptyNote
    /\ width # pageWidth
    /\ imagesLoaded
    /\ Cardinality(timers) = 1


\* the item at index i is above every other item
OnTop(its, i) == \A j \in DOMAIN its : j # i => its[i].zIndex > its[j].zIndex

\* C30: the items of the editor store have pairwise distinct zIndex, and an
\* item that addItem appended or that bringToFront raised has a zIndex
\* strictly greater than that of every other item.
C30_ZIndexDistinct ==
    /\ [](\A i, j \in DOMAIN items : i # j => items[i].zIndex # items[j].zIndex)
    /\ [][/\ Len(items') = Len(items) + 1 => OnTop(items', Len(items'))
          /\ Len(items') = Len(items) =>
                \A i \in DOMAIN items : items'[i] # items[i] => OnTop(items', i)]_vars

\* an item was removed and the oldest item was brought to the front: it is on
\* top of a later item, there is a gap in the zIndex values, nothing is selected
C30_Witness ==
    /\ Len(items) = 2
    /\ OnTop(items, 1)
    /\ items[2].zIndex > 2
    /\ selectedId = 0

====
